---- MODULE Spec2Model ----
(***************************************************************************)
(* NDVI application (src/main.py, src/models.py).                          *)
(*                                                                         *)
(* The module models these parts of the program.                           *)
(*   - The three NDVI endpoints /ndvi-image, /ndvi-stats and               *)
(*     /export-ndvi-csv: parameter validation, construction of the         *)
(*     processing request, the single outbound call to the imagery         *)
(*     gateway and the response returned for every outcome of that call.   *)
(*   - The analysis store behind /api/parcels/<id>/analyses: lookup of the *)
(*     record for (parcel_id, analysis_date), update in place or insert,   *)
(*     commit; both as one sequential request and as concurrent requests   *)
(*     interleaved between the lookup and the commit.                      *)
(*   - The operations on one parcel or one analysis (get, update, delete)  *)
(*     with their ownership filter.                                        *)
(*   - The evalscript of /ndvi-image, which shades one sample.             *)
(*                                                                         *)
(* Representation.                                                         *)
(*   - Query arguments are a function from the argument names that are     *)
(*     present to their string values (request.args).                      *)
(*   - A formatted message is the sequence of its literal and interpolated *)
(*     segments, in order.                                                 *)
(*   - A header value is the sequence of its characters.                   *)
(*   - NDVI values and area fractions are written in hundredths            *)
(*     (0.45 is 45).                                                       *)
(*   - A JSON body value is tagged with its JSON type.                     *)
(***************************************************************************)
EXTENDS Integers, Sequences, FiniteSets, TLC

VARIABLES
  token,            \* SENTINEL_ACCESS_TOKEN, fixed at process start
  last,             \* the request served last: endpoint, inputs, gateway outcome
                    \* (at startup: the outcome of the token request)
  resp,             \* the response returned for it (or the exception that left the handler)
  sent,             \* the outbound calls to the processing endpoint made while serving it
  parcels,          \* table parcel: set of rows
  analyses,         \* table ndvi_analysis: set of rows
  nextParcelId,     \* next primary key of parcel
  nextAnalysisId,   \* next primary key of ndvi_analysis
  inflight,         \* concurrent create_analysis requests between lookup and commit
  pixel,            \* the sample the gateway shaded last with the image evalscript,
                    \* and its colour
  users,            \* table user: set of rows
  session           \* the user id in the client's session, or Anonymous

vars ==
  <<token, last, resp, sent, parcels, analyses, nextParcelId, nextAnalysisId, inflight,
    pixel, users, session>>

storeVars == <<parcels, analyses, nextParcelId, nextAnalysisId, inflight>>

(***************************************************************************)
(* Bounds of the model.                                                    *)
(***************************************************************************)
\* content-length values Threshold-MaxDelta .. Threshold+MaxDelta are tried
MaxDelta == 5
\* at most this many parcel rows are ever created
MaxParcels == 1
\* at most this many analysis rows are ever created
MaxAnalyses == 2
\* the samples shaded have B04 + B08 equal to this (reflectance in units of
\* 1/200), so that their ndvi runs over -1 .. 1 in steps of 0.01
ReflectanceSum == 200

(***************************************************************************)
(* Results of operations that may raise.                                   *)
(***************************************************************************)
Ok(v) == [ok |-> TRUE, val |-> v]

Raise(e) == [ok |-> FALSE, exc |-> e]

(***************************************************************************)
(* Startup: credential acquisition.                                        *)
(***************************************************************************)
SENTINEL_PROCESS_URL == "https://services.sentinel-hub.com/api/v1/process"

\* What the token endpoint may do when asked once at startup.
TokenOutcomes ==
  { [kind |-> "response", status |-> 200, json |-> [access_token |-> "tokenA"]],
    [kind |-> "response", status |-> 200, json |-> <<>>],
    [kind |-> "response", status |-> 401, json |-> <<>>],
    [kind |-> "exception"] }

\* get_sentinel_token(): the token, or "" standing for None.
get_sentinel_token(o) ==
  IF o.kind = "exception" THEN ""
  ELSE IF o.status = 200
       THEN (IF "access_token" \in DOMAIN o.json THEN o.json.access_token ELSE "")
       ELSE ""

\* SENTINEL_ACCESS_TOKEN with a fault: the result of get_sentinel_token() is
\* used as it is, without the placeholder
SENTINEL_ACCESS_TOKEN_NoPlaceholder(o) == get_sentinel_token(o)

\* SENTINEL_ACCESS_TOKEN = get_sentinel_token() or "default_access_token"
SENTINEL_ACCESS_TOKEN(o) ==
  IF get_sentinel_token(o) = "" THEN "default_access_token" ELSE get_sentinel_token(o)

\* HEADERS, built once from the startup token
HEADERS(tok) == [Authorization |-> <<"Bearer ", tok>>]

(***************************************************************************)
(* Request inputs of the NDVI endpoints.                                   *)
(***************************************************************************)
FeatureCollection1 == "{\"features\":[{\"geometry\":\"Polygon1\"}]}"

FeatureCollection2 == "{\"features\":[{\"geometry\":\"Polygon2\"},{\"geometry\":\"Polygon1\"}]}"

GeoStrings ==
  { "", "not json", "{}", "{\"features\":[]}", "{\"features\":[{}]}",
    FeatureCollection1, FeatureCollection2 }

DateStrings == { "", "2024-05-01", "2024-06-15" }

\* request.args of one request
ArgSets ==
  { <<>> } \cup { [parcel_geojson |-> g] : g \in GeoStrings }
           \cup { [date |-> d] : d \in DateStrings }
           \cup { [parcel_geojson |-> g, date |-> d] : g \in GeoStrings, d \in DateStrings }

\* json.loads on the strings above: the parsed value, or the exception raised
JsonLoads(s) ==
  CASE s = "{}" -> Ok(<<>>)
    [] s = "{\"features\":[]}" -> Ok([features |-> <<>>])
    [] s = "{\"features\":[{}]}" -> Ok([features |-> << <<>> >>])
    [] s = FeatureCollection1 -> Ok([features |-> << [geometry |-> "Polygon1"] >>])
    [] s = FeatureCollection2 ->
         Ok([features |-> << [geometry |-> "Polygon2"], [geometry |-> "Polygon1"] >>])
    [] OTHER -> Raise("JSONDecodeError")

\* FirstGeometry with a fault: the geometry of the last feature is taken
FirstGeometry_Last(geojson) ==
  IF "features" \notin DOMAIN geojson THEN Raise("KeyError")
  ELSE IF Len(geojson.features) = 0 THEN Raise("IndexError")
  ELSE IF "geometry" \notin DOMAIN geojson.features[Len(geojson.features)]
  THEN Raise("KeyError")
  ELSE Ok(geojson.features[Len(geojson.features)].geometry)

\* geojson["features"][0]["geometry"]
FirstGeometry(geojson) ==
  IF "features" \notin DOMAIN geojson THEN Raise("KeyError")
  ELSE IF Len(geojson.features) = 0 THEN Raise("IndexError")
  ELSE IF "geometry" \notin DOMAIN geojson.features[1] THEN Raise("KeyError")
  ELSE Ok(geojson.features[1].geometry)

(***************************************************************************)
(* The gateway: what the processing endpoint may do with one call.         *)
(***************************************************************************)
Threshold == 100000

Digits == <<"0", "1", "2", "3", "4", "5", "6", "7", "8", "9">>

RECURSIVE ToDigits(_)
\* decimal text of n, as the gateway writes it into a header
ToDigits(n) ==
  IF n < 10 THEN <<Digits[n + 1]>>
  ELSE ToDigits(n \div 10) \o <<Digits[(n % 10) + 1]>>

ContentLengths ==
  ((Threshold - MaxDelta) .. (Threshold + MaxDelta)) \cup {0, 512 * 512 * 4}

\* response.headers of a 200 response: no content-length, a decimal one, or
\* one that is not a number
HeaderSets ==
  { <<>> } \cup { [content_length |-> ToDigits(n)] : n \in ContentLengths }
           \cup { [content_length |-> <<"1", "e", "5">>] }

GatewayStatuses == { 200, 400, 401, 429, 500, 503 }

\* a gateway response with status s and headers h
GatewayResponse(s, h) ==
  [kind |-> "response", status |-> s, headers |-> h,
   text |-> IF s = 200 THEN "raster" ELSE "upstream error text",
   content |-> IF s = 200 THEN "raster bytes" ELSE "upstream error bytes"]

GatewayOutcomes ==
  { [kind |-> "exception", message |-> "ConnectionError"] }
    \cup { GatewayResponse(200, h) : h \in HeaderSets }
    \cup { GatewayResponse(s, <<>>) : s \in GatewayStatuses \ {200} }

\* marks a request that reached no outbound call
NotCalled == [kind |-> "not called"]

(***************************************************************************)
(* Responses.                                                              *)
(***************************************************************************)
Response(body, status, mimetype) ==
  [status |-> status, mimetype |-> mimetype, body |-> body, headers |-> <<>>]

\* a dict (or a (dict, status) pair) returned from a view: Flask makes it JSON
JsonResponse(dict, status) ==
  Response([kind |-> "json", json |-> dict], status, "application/json")

Text(segments) == [kind |-> "text", text |-> segments]

Svg(captions) == [kind |-> "svg", captions |-> captions]

\* what a handler produces: its response and the outbound calls it made
Out(r, calls) == [resp |-> r, sent |-> calls]

\* "Missing required parameters: parcel_geojson, date"
MissingParametersMessage ==
  <<"Missing required parameters: ", "parcel_geojson", ", ", "date">>

(***************************************************************************)
(* Steps shared by the three NDVI handlers.                                *)
(***************************************************************************)
\* request.args.get(k) is None or "": Python's "not value"
Falsy(args, k) == k \notin DOMAIN args \/ args[k] = ""

\* MissingParams with a fault: tests "is None" and lets the empty string through
MissingParams_OnlyNone(args) ==
  "parcel_geojson" \notin DOMAIN args \/ "date" \notin DOMAIN args

\* if not parcel_geojson or not date
MissingParams(args) == Falsy(args, "parcel_geojson") \/ Falsy(args, "date")

\* the processing request: geojson = json.loads(...); payload = {...}
BuildPayload(args, format, bands) ==
  LET geojson == JsonLoads(args["parcel_geojson"]) IN
  IF ~geojson.ok THEN Raise(geojson.exc)
  ELSE LET geometry == FirstGeometry(geojson.val) IN
       IF ~geometry.ok THEN Raise(geometry.exc)
       ELSE Ok([input |->
                  [bounds |-> [geometry |-> geometry.val],
                   data |-> [type |-> "sentinel-2-l2a",
                             timeRange |-> [from |-> args["date"] \o "T00:00:00Z",
                                            to |-> args["date"] \o "T23:59:59Z"]]],
                output |-> [width |-> 512, height |-> 512, format |-> format],
                evalscript |-> [inputs |-> <<"B04", "B08">>, bands |-> bands]])

\* PostProcess with a fault: a failed call is sent a second time
PostProcess_Retry(payload, tok, gw) ==
  LET call == [url |-> SENTINEL_PROCESS_URL, json |-> payload, headers |-> HEADERS(tok)] IN
  IF gw.kind = "exception" \/ gw.status # 200 THEN <<call, call>> ELSE <<call>>

\* response = requests.post(SENTINEL_PROCESS_URL, json=payload, headers=HEADERS):
\* the calls that leave the process for one request; gw is the gateway's outcome
PostProcess(payload, tok, gw) ==
  << [url |-> SENTINEL_PROCESS_URL, json |-> payload, headers |-> HEADERS(tok)] >>

(***************************************************************************)
(* GET /ndvi-image                                                         *)
(***************************************************************************)
\* if response.status_code != 200: the upstream text with the upstream status
ImageUpstreamError(gw) ==
  Response(Text(<<"Error from Sentinel Hub API: ", gw.text>>), gw.status, "text/plain")

\* ImageConnectionError with a fault: the placeholder is returned without a
\* status, which makes it a 200
ImageConnectionError_NoStatus(gw) ==
  Response(Svg(<<"API Connection Error", gw.message>>), 200, "image/svg+xml")

\* except Exception around requests.post
ImageConnectionError(gw) ==
  Response(Svg(<<"API Connection Error", gw.message>>), 500, "image/svg+xml")

\* the outer except Exception
ImageFallback ==
  Response(Svg(<<"Error generating NDVI image", "Please try another date or area">>),
           200, "image/svg+xml")

get_ndvi_image(args, gw, tok) ==
  IF MissingParams(args)
  THEN Out(Response(Text(MissingParametersMessage), 400, "text/plain"), <<>>)
  ELSE LET payload == BuildPayload(args, "image/png", 3) IN
       IF ~payload.ok THEN Out(ImageFallback, <<>>)
       ELSE LET calls == PostProcess(payload.val, tok, gw) IN
            IF gw.kind = "exception" THEN Out(ImageConnectionError(gw), calls)
            ELSE IF gw.status # 200 THEN Out(ImageUpstreamError(gw), calls)
            ELSE Out(Response([kind |-> "png", content |-> gw.content], 200, "image/png"),
                     calls)

(***************************************************************************)
(* The evalscript of /ndvi-image: evaluatePixel, which the gateway runs on *)
(* every sample. Numbers are exact fractions [num, den] with den > 0; the  *)
(* quotient 0 / 0 is NaN.                                                  *)
(***************************************************************************)
Frac(num, den) == [num |-> num, den |-> den]

NaN == [nan |-> TRUE]

\* samples [B04, B08] of the two bands; the sample without any reflectance
\* is among them
Samples ==
  { [B04 |-> ReflectanceSum - b, B08 |-> b] : b \in 0 .. ReflectanceSum }
    \cup { [B04 |-> 0, B08 |-> 0] }

\* let ndvi = (sample.B08 - sample.B04) / (sample.B08 + sample.B04)
Ndvi(sample) ==
  IF sample.B08 + sample.B04 = 0 THEN NaN
  ELSE Frac(sample.B08 - sample.B04, sample.B08 + sample.B04)

\* evaluatePixel(sample): [red, green, blue]. A comparison with NaN is
\* false, so NaN takes the last branch.
evaluatePixel(sample) ==
  LET ndvi == Ndvi(sample) IN
  IF ndvi = NaN
  THEN <<Frac(0, 1), NaN, Frac(0, 1)>>
  ELSE IF ndvi.num < 0
  THEN <<Frac(1, 1), Frac(0, 1), Frac(0, 1)>>
  ELSE IF 100 * ndvi.num < 33 * ndvi.den
  THEN \* red = 1.0 - ndvi / 0.33; green = ndvi / 0.33
       <<Frac(33 * ndvi.den - 100 * ndvi.num, 33 * ndvi.den),
         Frac(100 * ndvi.num, 33 * ndvi.den),
         Frac(0, 1)>>
  ELSE \* red = 0.0; green = 0.8 - (ndvi - 0.33) * 0.5
       <<Frac(0, 1),
         Frac(160 * ndvi.den - (100 * ndvi.num - 33 * ndvi.den), 200 * ndvi.den),
         Frac(0, 1)>>

\* no sample shaded yet
NoPixel == [sample |-> <<>>, ndvi |-> NaN, rgb |-> <<>>]

(***************************************************************************)
(* GET /ndvi-stats                                                         *)
(***************************************************************************)
RASTERIO_AVAILABLE == FALSE

DigitValue(c) == CHOOSE d \in 0 .. 9 : Digits[d + 1] = c

IsDigit(c) == \E d \in 0 .. 9 : Digits[d + 1] = c

RECURSIVE DecimalValue(_)
DecimalValue(chars) ==
  IF Len(chars) = 0 THEN 0
  ELSE 10 * DecimalValue(SubSeq(chars, 1, Len(chars) - 1)) + DigitValue(chars[Len(chars)])

\* int(text): the number, or ValueError when the text is not a decimal number
ParseInt(chars) ==
  IF Len(chars) > 0 /\ \A i \in 1 .. Len(chars) : IsDigit(chars[i])
  THEN Ok(DecimalValue(chars))
  ELSE Raise("ValueError")

\* the stats dict of the branch taken when rasterio is not available
EstimatedStats ==
  [mean |-> 45, median |-> 48, std_dev |-> 15, min |-> 12, max |-> 78,
   p10 |-> 22, p90 |-> 67, count |-> 250000,
   area_distribution |->
     [low_vegetation |-> 20, moderate_vegetation |-> 45, high_vegetation |-> 35],
   data_source |-> "Sentinel Hub data (estimated values)"]

\* CountFromHeaders with a fault: the threshold itself already counts as exceeded
CountFromHeaders_AtThreshold(headers, count) ==
  IF "content_length" \in DOMAIN headers
  THEN LET size == ParseInt(headers.content_length) IN
       IF ~size.ok THEN Raise(size.exc)
       ELSE IF size.val >= Threshold THEN Ok(size.val \div 4)
       ELSE Ok(count)
  ELSE Ok(count)

\* if 'content-length' in response.headers: size = int(...);
\* if size > 100000: stats["count"] = size // 4
CountFromHeaders(headers, count) ==
  IF "content_length" \in DOMAIN headers
  THEN LET size == ParseInt(headers.content_length) IN
       IF ~size.ok THEN Raise(size.exc)
       ELSE IF size.val > Threshold THEN Ok(size.val \div 4)
       ELSE Ok(count)
  ELSE Ok(count)

\* StatsUpstreamError with a fault: every upstream failure becomes a 500
StatsUpstreamError_Always500(gw) ==
  JsonResponse([error |-> <<"Error from Sentinel API: ", gw.text>>], 500)

\* if response.status_code != 200: return {'error': ...}, response.status_code
StatsUpstreamError(gw) ==
  JsonResponse([error |-> <<"Error from Sentinel API: ", gw.text>>], gw.status)

\* except Exception as e: return {...}, 500
StatsException(e) ==
  JsonResponse([error |-> <<"Error processing NDVI data">>, error_details |-> e], 500)

\* a view that returns None: Flask raises TypeError outside the handler
ViewReturnedNone ==
  Response([kind |-> "unhandled", exc |-> "TypeError"], 500, "text/html")

\* get_ndvi_stats with a fault: the estimate is computed from the request,
\* here by writing the requested date into the payload
get_ndvi_stats_FromRequest(args, gw, tok) ==
  IF MissingParams(args)
  THEN Out(JsonResponse([error |-> MissingParametersMessage], 400), <<>>)
  ELSE LET payload == BuildPayload(args, "image/tiff", 1) IN
       IF ~payload.ok THEN Out(StatsException(payload.exc), <<>>)
       ELSE LET calls == PostProcess(payload.val, tok, gw) IN
            IF gw.kind = "exception" THEN Out(StatsException(gw.message), calls)
            ELSE IF gw.status # 200 THEN Out(StatsUpstreamError(gw), calls)
            ELSE IF RASTERIO_AVAILABLE THEN Out(ViewReturnedNone, calls)
            ELSE LET count == CountFromHeaders(gw.headers, EstimatedStats.count) IN
                 IF ~count.ok THEN Out(StatsException(count.exc), calls)
                 ELSE Out(JsonResponse([EstimatedStats EXCEPT !.count = count.val,
                                                              !.data_source = args["date"]],
                                       200),
                          calls)

get_ndvi_stats(args, gw, tok) ==
  IF MissingParams(args)
  THEN Out(JsonResponse([error |-> MissingParametersMessage], 400), <<>>)
  ELSE LET payload == BuildPayload(args, "image/tiff", 1) IN
       IF ~payload.ok THEN Out(StatsException(payload.exc), <<>>)
       ELSE LET calls == PostProcess(payload.val, tok, gw) IN
            IF gw.kind = "exception" THEN Out(StatsException(gw.message), calls)
            ELSE IF gw.status # 200 THEN Out(StatsUpstreamError(gw), calls)
            ELSE IF RASTERIO_AVAILABLE THEN Out(ViewReturnedNone, calls)
            ELSE LET count == CountFromHeaders(gw.headers, EstimatedStats.count) IN
                 IF ~count.ok THEN Out(StatsException(count.exc), calls)
                 ELSE Out(JsonResponse([EstimatedStats EXCEPT !.count = count.val], 200),
                          calls)

(***************************************************************************)
(* GET /export-ndvi-csv                                                    *)
(***************************************************************************)
PANDAS_AVAILABLE == TRUE

\* the stats dict built after a 200 answer
DerivedStats ==
  [mean |-> 63, median |-> 67, std_dev |-> 17, min |-> 4, max |-> 93,
   p10 |-> 42, p90 |-> 87, count |-> 262144,
   area_distribution |->
     [low_vegetation |-> 15, moderate_vegetation |-> 38, high_vegetation |-> 47],
   data_source |-> "Sentinel Hub (derived values - rasterio unavailable)"]

\* FlatStats with a fault: the fractions are copied without the factor 100
FlatStats_Unscaled(date, stats, use_demo_data) ==
  [date |-> date,
   mean_ndvi |-> stats.mean, median_ndvi |-> stats.median,
   std_dev_ndvi |-> stats.std_dev, min_ndvi |-> stats.min, max_ndvi |-> stats.max,
   percentile_10 |-> stats.p10, percentile_90 |-> stats.p90,
   pixel_count |-> stats.count,
   low_vegetation_pct |-> stats.area_distribution.low_vegetation,
   moderate_vegetation_pct |-> stats.area_distribution.moderate_vegetation,
   high_vegetation_pct |-> stats.area_distribution.high_vegetation,
   data_source |-> IF use_demo_data THEN "Demo data (sample values)"
                   ELSE "Sentinel-2 satellite data"]

\* flat_stats, with the fractions times 100 (hundredths of a percent point
\* are kept: a fraction of 15 hundredths is 1500 hundredths of a percent)
FlatStats(date, stats, use_demo_data) ==
  [date |-> date,
   mean_ndvi |-> stats.mean, median_ndvi |-> stats.median,
   std_dev_ndvi |-> stats.std_dev, min_ndvi |-> stats.min, max_ndvi |-> stats.max,
   percentile_10 |-> stats.p10, percentile_90 |-> stats.p90,
   pixel_count |-> stats.count,
   low_vegetation_pct |-> stats.area_distribution.low_vegetation * 100,
   moderate_vegetation_pct |-> stats.area_distribution.moderate_vegetation * 100,
   high_vegetation_pct |-> stats.area_distribution.high_vegetation * 100,
   data_source |-> IF use_demo_data THEN "Demo data (sample values)"
                   ELSE "Sentinel-2 satellite data"]

\* CsvUpstreamError with a fault: every upstream failure becomes a 500
CsvUpstreamError_Always500(gw) ==
  Response(Text(<<"Error from Sentinel API: ", gw.text>>), 500, "text/plain")

\* if response.status_code != 200: the upstream text with the upstream status
CsvUpstreamError(gw) ==
  Response(Text(<<"Error from Sentinel API: ", gw.text>>), gw.status, "text/plain")

\* except Exception as e
CsvException(e) ==
  Response(Text(<<"Error exporting CSV: ", e>>), 500, "text/plain")

\* Response(buffer.getvalue(), mimetype="text/csv", headers={...})
CsvResponse(date, row) ==
  [status |-> 200, mimetype |-> "text/csv",
   body |-> [kind |-> "csv", rows |-> <<row>>],
   headers |-> [Content_Disposition |->
                  <<"attachment; filename=ndvi_stats_", date, ".csv">>]]

export_ndvi_csv(args, gw, tok) ==
  IF MissingParams(args)
  THEN Out(Response(Text(MissingParametersMessage), 400, "text/plain"), <<>>)
  ELSE IF ~PANDAS_AVAILABLE
  THEN Out(Response(Text(<<"Required library pandas not installed. Please install pandas for CSV export.">>),
                    500, "text/plain"), <<>>)
  ELSE LET payload == BuildPayload(args, "image/tiff", 1) IN
       IF ~payload.ok THEN Out(CsvException(payload.exc), <<>>)
       ELSE LET calls == PostProcess(payload.val, tok, gw) IN
            IF gw.kind = "exception" THEN Out(CsvException(gw.message), calls)
            ELSE IF gw.status # 200 THEN Out(CsvUpstreamError(gw), calls)
            ELSE Out(CsvResponse(args["date"], FlatStats(args["date"], DerivedStats, FALSE)),
                     calls)

(***************************************************************************)
(* The parcel and analysis tables (src/models.py) and their handlers.      *)
(***************************************************************************)
\* ids of the users that hold a session (current_user.id)
Users == { 1, 2 }

\* parcel ids a request URL may name
ParcelIds == 1 .. MaxParcels

\* analysis ids a request URL may name
AnalysisIds == 1 .. MaxAnalyses

\* JSON values of a request body, tagged with their JSON type
Str(s) == [str |-> s]

Num(n) == [num |-> n]

Null == [null |-> TRUE]

IsStr(x) == "str" \in DOMAIN x

IsNum(x) == "num" \in DOMAIN x

\* Python truth of a JSON value
Truthy(x) ==
  CASE IsStr(x) -> x.str # ""
    [] IsNum(x) -> x.num # 0
    [] OTHER -> FALSE

\* data.get(k, default)
Get(data, k, default) == IF k \in DOMAIN data THEN data[k] ELSE default

\* datetime.strptime(x, '%Y-%m-%d').date() on the values tried below: the date
\* as <<year, month, day>>, ValueError for a string that is no such date,
\* TypeError for a value that is no string
strptime(x) ==
  IF ~IsStr(x) THEN Raise("TypeError")
  ELSE CASE x.str = "2024-05-01" -> Ok(<<2024, 5, 1>>)
         [] x.str = "2024-5-1" -> Ok(<<2024, 5, 1>>)
         [] x.str = "2024-06-15" -> Ok(<<2024, 6, 15>>)
         [] OTHER -> Raise("ValueError")

\* values of analysis_date in a request body
AnalysisDateValues ==
  { Str("2024-05-01"), Str("2024-5-1"), Str("2024-06-15"),
    Str("01/05/2024"), Num(20240501) }

\* request.json of POST /api/parcels/<id>/analyses. mean_ndvi stands for the
\* ten statistics of the body: the handler treats each of them as it treats
\* mean_ndvi (data.get(field, previous value) on update).
AnalysisBodies ==
  { <<>>, [mean_ndvi |-> Num(61)] }
    \cup { [analysis_date |-> d] : d \in AnalysisDateValues }
    \cup { [analysis_date |-> d, mean_ndvi |-> Num(61)] : d \in AnalysisDateValues }

\* request.json of the POSTs that write one field at a time: the date alone,
\* the date with a statistic, the date with notes; and a second date
FieldwiseAnalysisBodies ==
  { [analysis_date |-> Str("2024-05-01")],
    [analysis_date |-> Str("2024-05-01"), mean_ndvi |-> Num(61)],
    [analysis_date |-> Str("2024-05-01"), notes |-> Str("after rain")],
    [analysis_date |-> Str("2024-06-15")] }

\* request.json of POST /api/parcels
ParcelBodies ==
  { <<>>, [name |-> Str("North field")], [geometry |-> Str("Polygon1")],
    [name |-> Str("North field"), geometry |-> Str("Polygon1")] }

\* request.json of PUT /api/parcels/<id>
ParcelUpdates ==
  { <<>>, [name |-> Str("South field"), geometry |-> Str("Polygon2")], [name |-> Null] }

\* request.form of POST /register: names of 2 and 3 characters, addresses
\* with and without '@', passwords of 5 and 6 characters; the empty form
RegisterForms ==
  { <<>> } \cup
  { [username |-> n, email |-> e, password |-> p] :
      n \in { <<"a", "l">>, <<"a", "n", "n">>, <<"b", "o", "b">> },
      e \in { <<"a", "n", "n">>, <<"a", "@", "x">>, <<"b", "@", "x">> },
      p \in { <<"1", "2", "3", "4", "5">>, <<"s", "e", "c", "r", "e", "t">> } }

\* request.form of POST /login
LoginForms ==
  { <<>>, [username |-> <<"a", "n", "n">>] } \cup
  { [username |-> n, password |-> p] :
      n \in { <<"a", "n", "n">>, <<"b", "o", "b">>, <<"z", "e", "d">> },
      p \in { <<"s", "e", "c", "r", "e", "t">>, <<"g", "u", "e", "s", "s", "1">> } }

Methods == { "GET", "POST" }

\* jsonify(...) with a status
Jsonify(dict, status) == JsonResponse(dict, status)

\* an exception that no except clause of the handler catches
Unhandled(e) == Response([kind |-> "unhandled", exc |-> e], 500, "text/html")

\* OwnedParcels with a fault: the query filters by id only
OwnedParcels_AnyOwner(P, parcel_id, user) == { p \in P : p.id = parcel_id }

\* Parcel.query.filter_by(id=parcel_id, user_id=current_user.id).first()
OwnedParcels(P, parcel_id, user) ==
  { p \in P : p.id = parcel_id /\ p.user_id = user }

\* ExistingAnalyses with a fault: the handler without its lookup, so that every
\* POST inserts
ExistingAnalyses_NoLookup(A, parcel_id, analysis_date) == {}

\* NDVIAnalysis.query.filter_by(parcel_id=..., analysis_date=...): the rows
\* first() chooses from
ExistingAnalyses(A, parcel_id, analysis_date) ==
  { a \in A : a.parcel_id = parcel_id /\ a.analysis_date = analysis_date }

\* UpdatedAnalysis with a fault: an absent field is reset to the default of
\* the insert branch
UpdatedAnalysis_ResetsAbsent(existing, data) ==
  [existing EXCEPT !.mean_ndvi = Get(data, "mean_ndvi", Num(0)),
                   !.notes = Get(data, "notes", Null)]

\* the attributes of existing_analysis after the assignments of the update branch
UpdatedAnalysis(existing, data) ==
  [existing EXCEPT !.mean_ndvi = Get(data, "mean_ndvi", existing.mean_ndvi),
                   !.notes = Get(data, "notes", existing.notes)]

\* NDVIAnalysis(parcel_id=..., analysis_date=..., mean_ndvi=data.get('mean_ndvi', 0), ...,
\* notes=data.get('notes')). created_at is datetime.utcnow() at the insert:
\* the model writes the sequence number of the insert, which orders the
\* inserts as their times do.
NewAnalysis(id, parcel_id, analysis_date, data) ==
  [id |-> id, parcel_id |-> parcel_id, analysis_date |-> analysis_date,
   mean_ndvi |-> Get(data, "mean_ndvi", Num(0)),
   notes |-> Get(data, "notes", Null),
   created_at |-> id]

\* AnalysisPrecheck with a fault: the test for a missing analysis_date is
\* left out
AnalysisPrecheck_NoMissingTest(P, user, parcel_id, data) ==
  IF OwnedParcels(P, parcel_id, user) = {}
  THEN [ok |-> FALSE, resp |-> Jsonify([error |-> "Parcel not found"], 404)]
  ELSE LET parsed == strptime(Get(data, "analysis_date", Null)) IN
       IF parsed.ok THEN [ok |-> TRUE, date |-> parsed.val]
       ELSE IF parsed.exc = "ValueError"
       THEN [ok |-> FALSE,
             resp |-> Jsonify([error |-> "Invalid date format. Use YYYY-MM-DD"], 400)]
       ELSE [ok |-> FALSE, resp |-> Unhandled(parsed.exc)]

\* create_analysis up to the lookup: the response that ends the request
\* early, or the parsed date
AnalysisPrecheck(P, user, parcel_id, data) ==
  IF OwnedParcels(P, parcel_id, user) = {}
  THEN [ok |-> FALSE, resp |-> Jsonify([error |-> "Parcel not found"], 404)]
  ELSE IF DOMAIN data = {} \/ ~Truthy(Get(data, "analysis_date", Null))
  THEN [ok |-> FALSE, resp |-> Jsonify([error |-> "Missing required fields"], 400)]
  ELSE LET parsed == strptime(data["analysis_date"]) IN
       IF parsed.ok THEN [ok |-> TRUE, date |-> parsed.val]
       ELSE IF parsed.exc = "ValueError"
       THEN [ok |-> FALSE,
             resp |-> Jsonify([error |-> "Invalid date format. Use YYYY-MM-DD"], 400)]
       ELSE [ok |-> FALSE, resp |-> Unhandled(parsed.exc)]

\* the UPDATE the commit flushes: the columns whose attribute differs from
\* the loaded value, written to the row as it is now
FlushUpdate(A, loaded, object) ==
  { IF a.id = loaded.id
    THEN [a EXCEPT !.mean_ndvi = IF object.mean_ndvi # loaded.mean_ndvi
                                 THEN object.mean_ndvi ELSE a.mean_ndvi,
                   !.notes = IF object.notes # loaded.notes
                             THEN object.notes ELSE a.notes]
    ELSE a : a \in A }

AnalysisUpdated(id) ==
  Jsonify([id |-> id, message |-> "Analysis updated successfully", updated |-> TRUE], 200)

AnalysisSaved(id) ==
  Jsonify([id |-> id, message |-> "Analysis saved successfully", updated |-> FALSE], 201)

(***************************************************************************)
(* Accounts and sessions (register, login, logout, @login_required).       *)
(* A form value is the sequence of its characters; request.form is a       *)
(* function from the fields that are present to their values.              *)
(***************************************************************************)
\* the session of a client that is not logged in
Anonymous == 0

\* request.form.get(k): the value, or <<>> for None (a field that is absent
\* and a field that is empty are both falsy and both match no row)
FormGet(form, k) == IF k \in DOMAIN form THEN form[k] ELSE <<>>

\* '@' in email
HasAt(email) == \E i \in 1 .. Len(email) : email[i] = "@"

\* generate_password_hash(password): a value that only the same password matches
PasswordHash(password) == [hash_of |-> password]

\* user.check_password(password)
check_password(user, password) == user.password_hash = PasswordHash(password)

\* User.query.filter_by(username=username).first()
UsersNamed(U, username) == { u \in U : u.username = username }

\* User.query.filter_by(email=email).first()
UsersWithEmail(U, email) == { u \in U : u.email = email }

\* ValidationErrors with a fault: the lookup by email is left out
ValidationErrors_NoEmailLookup(U, username, email, password) ==
  (IF Len(username) < 3 THEN <<"Username must be at least 3 characters">> ELSE <<>>)
  \o (IF ~HasAt(email) THEN <<"Valid email address is required">> ELSE <<>>)
  \o (IF Len(password) < 6 THEN <<"Password must be at least 6 characters">> ELSE <<>>)
  \o (IF UsersNamed(U, username) # {} THEN <<"Username already exists">> ELSE <<>>)

\* the list errors of register, in the order of its appends
ValidationErrors(U, username, email, password) ==
  (IF Len(username) < 3 THEN <<"Username must be at least 3 characters">> ELSE <<>>)
  \o (IF ~HasAt(email) THEN <<"Valid email address is required">> ELSE <<>>)
  \o (IF Len(password) < 6 THEN <<"Password must be at least 6 characters">> ELSE <<>>)
  \o (IF UsersNamed(U, username) # {} THEN <<"Username already exists">> ELSE <<>>)
  \o (IF UsersWithEmail(U, email) # {} THEN <<"Email address already in use">> ELSE <<>>)

\* the page a GET of /register or /login returns
HtmlForm(title) == Response([kind |-> "html", title |-> title], 200, "text/html")

\* redirect(location)
Redirect(location) == Response([kind |-> "redirect", location |-> location], 302, "text/html")

\* login_manager.unauthorized() with login_view = 'login'
Unauthorized(path) == Redirect(<<"/login", "?next=", path>>)

\* /register
register(method, form) ==
  LET username == FormGet(form, "username")
      email == FormGet(form, "email")
      password == FormGet(form, "password")
      errors == ValidationErrors(users, username, email, password)
      new_user == [id |-> Cardinality(users) + 1, username |-> username, email |-> email,
                   password_hash |-> PasswordHash(password)]
  IN /\ last' = [op |-> "register", method |-> method, form |-> form]
     /\ sent' = <<>>
     /\ IF method = "GET"
        THEN /\ resp' = HtmlForm("Register")
             /\ UNCHANGED <<users, session>>
        ELSE IF Len(errors) > 0
        THEN /\ resp' = Jsonify([success |-> FALSE, errors |-> errors], 400)
             /\ UNCHANGED <<users, session>>
        ELSE /\ users' = users \cup {new_user}
             /\ session' = new_user.id
             /\ resp' = Jsonify([success |-> TRUE, redirect |-> "/"], 200)
     /\ UNCHANGED <<token, pixel, storeVars>>

\* /login. check_password_hash of a password that is None raises, and no
\* except clause catches it.
login(method, form) ==
  LET username == FormGet(form, "username")
      found == UsersNamed(users, username)
  IN /\ last' = [op |-> "login", method |-> method, form |-> form]
     /\ sent' = <<>>
     /\ IF method = "GET"
        THEN /\ resp' = HtmlForm("Login")
             /\ UNCHANGED session
        ELSE IF found = {}
        THEN /\ resp' = Jsonify([success |-> FALSE,
                                  error |-> "Invalid username or password"], 401)
             /\ UNCHANGED session
        ELSE IF "password" \notin DOMAIN form
        THEN /\ resp' = Unhandled("AttributeError")
             /\ UNCHANGED session
        ELSE \E user \in found :
               IF check_password(user, form["password"])
               THEN /\ session' = user.id
                    /\ resp' = Jsonify([success |-> TRUE, redirect |-> "/"], 200)
               ELSE /\ resp' = Jsonify([success |-> FALSE,
                                         error |-> "Invalid username or password"], 401)
                    /\ UNCHANGED session
     /\ UNCHANGED <<token, pixel, storeVars, users>>

\* @login_required when current_user is not authenticated: the view is not
\* called
LoginRequired(op, path) ==
  /\ session = Anonymous
  /\ last' = [op |-> op]
  /\ resp' = Unauthorized(path)
  /\ sent' = <<>>
  /\ UNCHANGED <<token, pixel, storeVars, users, session>>

\* logout with a fault: logout_user() is left out
logout_KeepsSession ==
  \/ LoginRequired("logout", "/logout")
  \/ /\ session # Anonymous
     /\ last' = [op |-> "logout"]
     /\ sent' = <<>>
     /\ resp' = Redirect(<<"/login">>)
     /\ UNCHANGED <<token, pixel, storeVars, users, session>>

\* /logout
logout ==
  \/ LoginRequired("logout", "/logout")
  \/ /\ session # Anonymous
     /\ last' = [op |-> "logout"]
     /\ sent' = <<>>
     /\ session' = Anonymous
     /\ resp' = Redirect(<<"/login">>)
     /\ UNCHANGED <<token, pixel, storeVars, users>>

(***************************************************************************)
(* State after startup: the token acquired once, empty tables.             *)
(***************************************************************************)
Workers == { "w1", "w2" }

Idle == [pc |-> "idle"]

NoResponse == Response([kind |-> "none"], 0, "")

Init ==
  /\ \E o \in TokenOutcomes :
       /\ token = SENTINEL_ACCESS_TOKEN(o)
       /\ last = [op |-> "startup", outcome |-> o]
  /\ resp = NoResponse
  /\ sent = <<>>
  /\ parcels = {}
  /\ analyses = {}
  /\ nextParcelId = 1
  /\ nextAnalysisId = 1
  /\ inflight = [w \in Workers |-> Idle]
  /\ pixel = NoPixel
  /\ users = {}
  /\ session = Anonymous

(***************************************************************************)
(* Requests to the NDVI endpoints.                                         *)
(***************************************************************************)
\* Serve with a fault: serving the request empties the analysis table
Serve_ClearsAnalyses(op, args, gw, out) ==
  /\ last' = [op |-> op, args |-> args,
              gw |-> IF Len(out.sent) = 0 THEN NotCalled ELSE gw]
  /\ resp' = out.resp
  /\ sent' = out.sent
  /\ analyses' = {}
  /\ UNCHANGED <<token, pixel, users, session, parcels, nextParcelId, nextAnalysisId, inflight>>

\* one request served by handler out: the gateway outcome is recorded only
\* when the request reached the gateway
Serve(op, args, gw, out) ==
  /\ last' = [op |-> op, args |-> args,
              gw |-> IF Len(out.sent) = 0 THEN NotCalled ELSE gw]
  /\ resp' = out.resp
  /\ sent' = out.sent
  /\ UNCHANGED <<token, pixel, users, session, storeVars>>

NdviImageRequest ==
  \E args \in ArgSets, gw \in GatewayOutcomes :
    Serve("/ndvi-image", args, gw, get_ndvi_image(args, gw, token))

NdviStatsRequest ==
  \E args \in ArgSets, gw \in GatewayOutcomes :
    Serve("/ndvi-stats", args, gw, get_ndvi_stats(args, gw, token))

ExportNdviCsvRequest ==
  \E args \in ArgSets, gw \in GatewayOutcomes :
    Serve("/export-ndvi-csv", args, gw, export_ndvi_csv(args, gw, token))

\* the gateway shades one sample of the requested raster
EvaluatePixel ==
  /\ \E sample \in Samples :
       pixel' = [sample |-> sample, ndvi |-> Ndvi(sample), rgb |-> evaluatePixel(sample)]
  /\ UNCHANGED <<token, last, resp, sent, storeVars, users, session>>

(***************************************************************************)
(* Requests to the parcel and analysis API, one at a time.                 *)
(***************************************************************************)
\* POST /api/parcels
create_parcel(user, data) ==
  /\ last' = [op |-> "create_parcel"]
  /\ sent' = <<>>
  /\ IF DOMAIN data = {} \/ ~Truthy(Get(data, "name", Null))
        \/ ~Truthy(Get(data, "geometry", Null))
     THEN /\ resp' = Jsonify([error |-> "Missing required fields"], 400)
          /\ UNCHANGED <<parcels, nextParcelId>>
     ELSE /\ nextParcelId <= MaxParcels
          /\ parcels' = parcels \cup
               { [id |-> nextParcelId, user_id |-> user,
                  name |-> data["name"].str, geometry |-> data["geometry"].str] }
          /\ nextParcelId' = nextParcelId + 1
          /\ resp' = Jsonify([id |-> nextParcelId, name |-> data["name"].str,
                              geometry |-> data["geometry"].str], 201)
  /\ UNCHANGED <<token, pixel, users, session, analyses, nextAnalysisId, inflight>>

\* the insert-or-update and commit of create_analysis; existing is the set
\* holding the row first() returned, or the empty set for None
WriteAnalysis(parcel_id, analysis_date, data, existing) ==
  IF existing # {}
  THEN \E e \in existing :
         /\ analyses' = FlushUpdate(analyses, e, UpdatedAnalysis(e, data))
         /\ nextAnalysisId' = nextAnalysisId
         /\ resp' = AnalysisUpdated(e.id)
  ELSE /\ nextAnalysisId <= MaxAnalyses
       /\ analyses' = analyses \cup
            { NewAnalysis(nextAnalysisId, parcel_id, analysis_date, data) }
       /\ nextAnalysisId' = nextAnalysisId + 1
       /\ resp' = AnalysisSaved(nextAnalysisId)

\* first(): one of the matching rows, or None
First(rows) == IF rows = {} THEN { {} } ELSE { {r} : r \in rows }

\* the request POST /api/parcels/<parcel_id>/analyses: the caller, the parcel
\* and the analysis_date of the body (Null when the body has none)
AnalysisRequest(user, parcel_id, data) ==
  [op |-> "create_analysis", user |-> user, parcel_id |-> parcel_id,
   analysis_date |-> Get(data, "analysis_date", Null)]

\* POST /api/parcels/<parcel_id>/analyses
create_analysis(user, parcel_id, data) ==
  LET pre == AnalysisPrecheck(parcels, user, parcel_id, data) IN
  /\ last' = AnalysisRequest(user, parcel_id, data)
  /\ sent' = <<>>
  /\ IF ~pre.ok
     THEN /\ resp' = pre.resp
          /\ UNCHANGED <<analyses, nextAnalysisId>>
     ELSE \E existing \in First(ExistingAnalyses(analyses, parcel_id, pre.date)) :
            WriteAnalysis(parcel_id, pre.date, data, existing)
  /\ UNCHANGED <<token, pixel, users, session, parcels, nextParcelId, inflight>>

\* GET /api/parcels/<parcel_id>/analyses
get_analyses(user, parcel_id) ==
  /\ last' = [op |-> "get_analyses", user |-> user, parcel_id |-> parcel_id]
  /\ sent' = <<>>
  /\ resp' = IF OwnedParcels(parcels, parcel_id, user) = {}
             THEN Jsonify([error |-> "Parcel not found"], 404)
             ELSE Jsonify([rows |-> { a \in analyses : a.parcel_id = parcel_id }], 200)
  /\ UNCHANGED <<token, pixel, users, session, storeVars>>

\* NDVIAnalysis.query.join(Parcel).filter(id == analysis_id, Parcel.user_id == user)
OwnedAnalyses(A, P, analysis_id, user) ==
  { a \in A : a.id = analysis_id
              /\ \E p \in P : p.id = a.parcel_id /\ p.user_id = user }

\* DELETE /api/analyses/<analysis_id>
delete_analysis(user, analysis_id) ==
  /\ last' = [op |-> "delete_analysis", user |-> user, analysis_id |-> analysis_id]
  /\ sent' = <<>>
  /\ IF OwnedAnalyses(analyses, parcels, analysis_id, user) = {}
     THEN /\ resp' = Jsonify([error |-> "Analysis not found"], 404)
          /\ UNCHANGED analyses
     ELSE /\ analyses' = analyses \ OwnedAnalyses(analyses, parcels, analysis_id, user)
          /\ resp' = Response([kind |-> "empty"], 204, "text/html")
  /\ UNCHANGED <<token, pixel, users, session, parcels, nextParcelId, nextAnalysisId, inflight>>

\* the JSON object a handler returns for a parcel row
ParcelJson(p) == [id |-> p.id, name |-> p.name, geometry |-> p.geometry]

\* GET /api/parcels/<parcel_id>
get_parcel(user, parcel_id) ==
  /\ last' = [op |-> "get_parcel", user |-> user, parcel_id |-> parcel_id]
  /\ sent' = <<>>
  /\ resp' = IF OwnedParcels(parcels, parcel_id, user) = {}
             THEN Jsonify([error |-> "Parcel not found"], 404)
             ELSE LET parcel == CHOOSE p \in OwnedParcels(parcels, parcel_id, user) : TRUE
                  IN Jsonify(ParcelJson(parcel), 200)
  /\ UNCHANGED <<token, pixel, users, session, storeVars>>

\* GET /api/parcels
get_parcels(user) ==
  /\ last' = [op |-> "get_parcels", user |-> user]
  /\ sent' = <<>>
  /\ resp' = Jsonify([rows |-> { ParcelJson(p) : p \in { q \in parcels : q.user_id = user } }],
                     200)
  /\ UNCHANGED <<token, pixel, users, session, storeVars>>

\* the row after the assignments of update_parcel
UpdatedParcel(parcel, data) ==
  [parcel EXCEPT !.name = IF "name" \in DOMAIN data THEN data["name"] ELSE Str(parcel.name),
                 !.geometry = IF "geometry" \in DOMAIN data THEN data["geometry"].str
                              ELSE parcel.geometry]

\* PUT /api/parcels/<parcel_id>. The column name is NOT NULL: the commit of
\* a null name raises IntegrityError, which no except clause catches.
update_parcel(user, parcel_id, data) ==
  /\ last' = [op |-> "update_parcel", user |-> user, parcel_id |-> parcel_id]
  /\ sent' = <<>>
  /\ IF OwnedParcels(parcels, parcel_id, user) = {}
     THEN /\ resp' = Jsonify([error |-> "Parcel not found"], 404)
          /\ UNCHANGED parcels
     ELSE IF DOMAIN data = {}
     THEN /\ resp' = Jsonify([error |-> "No data provided"], 400)
          /\ UNCHANGED parcels
     ELSE LET parcel == CHOOSE p \in OwnedParcels(parcels, parcel_id, user) : TRUE
              updated == UpdatedParcel(parcel, data)
          IN IF ~IsStr(updated.name)
             THEN /\ resp' = Unhandled("IntegrityError")
                  /\ UNCHANGED parcels
             ELSE /\ parcels' = (parcels \ {parcel})
                                   \cup { [updated EXCEPT !.name = updated.name.str] }
                  /\ resp' = Jsonify(ParcelJson([updated EXCEPT !.name = updated.name.str]),
                                     200)
  /\ UNCHANGED <<token, pixel, users, session, analyses, nextParcelId, nextAnalysisId, inflight>>

\* DELETE /api/parcels/<parcel_id>. Parcel.analyses has no delete cascade:
\* the flush sets parcel_id of the parcel's analyses to NULL, the column is
\* NOT NULL, and the commit raises IntegrityError, which no except clause
\* catches; the transaction is rolled back.
delete_parcel(user, parcel_id) ==
  /\ last' = [op |-> "delete_parcel", user |-> user, parcel_id |-> parcel_id]
  /\ sent' = <<>>
  /\ IF OwnedParcels(parcels, parcel_id, user) = {}
     THEN /\ resp' = Jsonify([error |-> "Parcel not found"], 404)
          /\ UNCHANGED parcels
     ELSE IF \E a \in analyses : a.parcel_id = parcel_id
     THEN /\ resp' = Unhandled("IntegrityError")
          /\ UNCHANGED parcels
     ELSE /\ parcels' = parcels \ OwnedParcels(parcels, parcel_id, user)
          /\ resp' = Response([kind |-> "empty"], 204, "text/html")
  /\ UNCHANGED <<token, pixel, users, session, analyses, nextParcelId, nextAnalysisId, inflight>>

\* GET /api/analyses/<analysis_id>
get_analysis(user, analysis_id) ==
  /\ last' = [op |-> "get_analysis", user |-> user, analysis_id |-> analysis_id]
  /\ sent' = <<>>
  /\ resp' = IF OwnedAnalyses(analyses, parcels, analysis_id, user) = {}
             THEN Jsonify([error |-> "Analysis not found"], 404)
             ELSE LET analysis ==
                        CHOOSE a \in OwnedAnalyses(analyses, parcels, analysis_id, user) : TRUE
                  IN Jsonify(analysis, 200)
  /\ UNCHANGED <<token, pixel, users, session, storeVars>>

(***************************************************************************)
(* create_analysis served by concurrent workers: each request reads the    *)
(* tables at its lookup and writes them at its commit.                     *)
(***************************************************************************)
\* from the ownership check to existing_analysis = ....first()
BeginCreateAnalysis(w, user, parcel_id, data) ==
  LET pre == AnalysisPrecheck(parcels, user, parcel_id, data) IN
  /\ inflight[w] = Idle
  /\ IF ~pre.ok
     THEN /\ last' = AnalysisRequest(user, parcel_id, data)
          /\ resp' = pre.resp
          /\ sent' = <<>>
          /\ UNCHANGED inflight
     ELSE /\ \E existing \in First(ExistingAnalyses(analyses, parcel_id, pre.date)) :
               inflight' = [inflight EXCEPT ![w] =
                  [pc |-> "lookup done", user |-> user, parcel_id |-> parcel_id,
                   date |-> pre.date, data |-> data, existing |-> existing]]
          /\ UNCHANGED <<last, resp, sent>>
  /\ UNCHANGED <<token, pixel, users, session, parcels, analyses, nextParcelId, nextAnalysisId>>

\* from "if existing_analysis" to the return after db.session.commit()
CommitCreateAnalysis(w) ==
  /\ inflight[w] # Idle
  /\ WriteAnalysis(inflight[w].parcel_id, inflight[w].date, inflight[w].data,
                   inflight[w].existing)
  /\ last' = AnalysisRequest(inflight[w].user, inflight[w].parcel_id, inflight[w].data)
  /\ sent' = <<>>
  /\ inflight' = [inflight EXCEPT ![w] = Idle]
  /\ UNCHANGED <<token, pixel, users, session, parcels, nextParcelId>>

(***************************************************************************)
(* Specifications.                                                         *)
(***************************************************************************)
CreateParcel == \E u \in Users, data \in ParcelBodies : create_parcel(u, data)

CreateAnalysis ==
  \E u \in Users, p \in ParcelIds, data \in AnalysisBodies : create_analysis(u, p, data)

GetAnalyses == \E u \in Users, p \in ParcelIds : get_analyses(u, p)

DeleteAnalysis == \E u \in Users, a \in AnalysisIds : delete_analysis(u, a)

BeginCreate ==
  \E w \in Workers, u \in Users, p \in ParcelIds, data \in AnalysisBodies :
    BeginCreateAnalysis(w, u, p, data)

CommitCreate == \E w \in Workers : CommitCreateAnalysis(w)

\* the NDVI endpoints
Next == NdviImageRequest \/ NdviStatsRequest \/ ExportNdviCsvRequest

Spec == Init /\ [][Next]_vars

\* the parcel and analysis API, requests served one after the other
NextStore == CreateParcel \/ CreateAnalysis \/ GetAnalyses \/ DeleteAnalysis

SpecStore == Init /\ [][NextStore]_vars

\* create_analysis requests served concurrently
NextConc == CreateParcel \/ BeginCreate \/ CommitCreate

SpecConc == Init /\ [][NextConc]_vars

\* request.args and gateway outcomes of the NDVI requests that are served
\* between requests to the parcel and analysis API
ArgSetsBesideStore ==
  { <<>>,
    [parcel_geojson |-> "not json", date |-> "2024-05-01"],
    [parcel_geojson |-> FeatureCollection1, date |-> "2024-05-01"] }

GatewayOutcomesBesideStore ==
  { [kind |-> "exception", message |-> "ConnectionError"],
    GatewayResponse(200, <<>>), GatewayResponse(401, <<>>) }

\* request.json of the POSTs that fill the analysis table
SavedAnalysisBodies ==
  { [analysis_date |-> Str("2024-05-01")],
    [analysis_date |-> Str("2024-06-15"), mean_ndvi |-> Num(61)] }

SaveAnalysis ==
  \E u \in Users, p \in ParcelIds, data \in SavedAnalysisBodies :
    create_analysis(u, p, data)

NdviImageBesideStore ==
  \E args \in ArgSetsBesideStore, gw \in GatewayOutcomesBesideStore :
    Serve("/ndvi-image", args, gw, get_ndvi_image(args, gw, token))

NdviStatsBesideStore ==
  \E args \in ArgSetsBesideStore, gw \in GatewayOutcomesBesideStore :
    Serve("/ndvi-stats", args, gw, get_ndvi_stats(args, gw, token))

ExportNdviCsvBesideStore ==
  \E args \in ArgSetsBesideStore, gw \in GatewayOutcomesBesideStore :
    Serve("/export-ndvi-csv", args, gw, export_ndvi_csv(args, gw, token))

\* NDVI requests served between requests that write the tables
NextMixed ==
  \/ CreateParcel
  \/ SaveAnalysis
  \/ NdviImageBesideStore
  \/ NdviStatsBesideStore
  \/ ExportNdviCsvBesideStore

SpecMixed == Init /\ [][NextMixed]_vars

UpsertAnalysis ==
  \E u \in Users, p \in ParcelIds, data \in FieldwiseAnalysisBodies :
    create_analysis(u, p, data)

\* parcels created and analyses written field by field
NextUpsert == CreateParcel \/ UpsertAnalysis

SpecUpsert == Init /\ [][NextUpsert]_vars

Register == \E method \in Methods, form \in RegisterForms : register(method, form)

Login == \E method \in Methods, form \in LoginForms : login(method, form)

Logout == logout

\* accounts: registration, login and logout of one client
NextAccounts == Register \/ Login \/ Logout

SpecAccounts == Init /\ [][NextAccounts]_vars

GetParcel == \E u \in Users, p \in ParcelIds : get_parcel(u, p)

UpdateParcel ==
  \E u \in Users, p \in ParcelIds, data \in ParcelUpdates : update_parcel(u, p, data)

DeleteParcel == \E u \in Users, p \in ParcelIds : delete_parcel(u, p)

GetAnalysis == \E u \in Users, a \in AnalysisIds : get_analysis(u, a)

\* the operations on one parcel or one analysis, by the two users
NextOwn ==
  \/ CreateParcel
  \/ GetParcel
  \/ UpdateParcel
  \/ DeleteParcel
  \/ SaveAnalysis
  \/ GetAnalyses
  \/ GetAnalysis
  \/ DeleteAnalysis

SpecOwn == Init /\ [][NextOwn]_vars

\* request.json of the POSTs whose validation is followed: no date, the date
\* written three ways
ValidatedAnalysisBodies ==
  { <<>>, [mean_ndvi |-> Num(61)], [analysis_date |-> Str("2024-05-01")],
    [analysis_date |-> Str("2024-5-1")], [analysis_date |-> Str("01/05/2024")] }

ValidateAnalysis ==
  \E u \in Users, p \in ParcelIds, data \in ValidatedAnalysisBodies :
    create_analysis(u, p, data)

\* the three writes that validate a request body
NextWrites == CreateParcel \/ ValidateAnalysis \/ UpdateParcel

SpecWrites == Init /\ [][NextWrites]_vars

\* request.form of the registrations and logins of the client whose session
\* the protected endpoints see
SessionRegisterForms ==
  { [username |-> <<"a", "n", "n">>, email |-> <<"a", "@", "x">>,
     password |-> <<"s", "e", "c", "r", "e", "t">>],
    [username |-> <<"b", "o", "b">>, email |-> <<"b", "@", "x">>,
     password |-> <<"s", "e", "c", "r", "e", "t">>],
    [username |-> <<"b", "o", "b">>, email |-> <<"b", "@", "x">>,
     password |-> <<"1", "2", "3", "4", "5">>] }

SessionLoginForms ==
  { [username |-> <<"a", "n", "n">>],
    [username |-> <<"a", "n", "n">>, password |-> <<"s", "e", "c", "r", "e", "t">>],
    [username |-> <<"a", "n", "n">>, password |-> <<"g", "u", "e", "s", "s", "1">>],
    [username |-> <<"z", "e", "d">>, password |-> <<"s", "e", "c", "r", "e", "t">>] }

SessionParcelBodies ==
  { <<>>, [name |-> Str("North field"), geometry |-> Str("Polygon1")] }

SessionParcelUpdates ==
  { <<>>, [name |-> Str("South field"), geometry |-> Str("Polygon2")] }

SessionAnalysisBodies == { [analysis_date |-> Str("2024-05-01")] }

SessionRegister == \E form \in SessionRegisterForms : register("POST", form)

SessionLogin == \E form \in SessionLoginForms : login("POST", form)

\* the endpoints behind @login_required, called with current_user
SessionGetParcels ==
  \/ LoginRequired("get_parcels", "/api/parcels")
  \/ session # Anonymous /\ get_parcels(session)

SessionCreateParcel ==
  \/ LoginRequired("create_parcel", "/api/parcels")
  \/ session # Anonymous /\ \E data \in SessionParcelBodies : create_parcel(session, data)

SessionGetParcel ==
  \/ LoginRequired("get_parcel", "/api/parcels/<id>")
  \/ session # Anonymous /\ \E p \in ParcelIds : get_parcel(session, p)

SessionUpdateParcel ==
  \/ LoginRequired("update_parcel", "/api/parcels/<id>")
  \/ session # Anonymous
       /\ \E p \in ParcelIds, data \in SessionParcelUpdates : update_parcel(session, p, data)

SessionDeleteParcel ==
  \/ LoginRequired("delete_parcel", "/api/parcels/<id>")
  \/ session # Anonymous /\ \E p \in ParcelIds : delete_parcel(session, p)

SessionGetAnalyses ==
  \/ LoginRequired("get_analyses", "/api/parcels/<id>/analyses")
  \/ session # Anonymous /\ \E p \in ParcelIds : get_analyses(session, p)

SessionCreateAnalysis ==
  \/ LoginRequired("create_analysis", "/api/parcels/<id>/analyses")
  \/ session # Anonymous
       /\ \E p \in ParcelIds, data \in SessionAnalysisBodies : create_analysis(session, p, data)

SessionGetAnalysis ==
  \/ LoginRequired("get_analysis", "/api/analyses/<id>")
  \/ session # Anonymous /\ \E a \in AnalysisIds : get_analysis(session, a)

SessionDeleteAnalysis ==
  \/ LoginRequired("delete_analysis", "/api/analyses/<id>")
  \/ session # Anonymous /\ \E a \in AnalysisIds : delete_analysis(session, a)

\* one client: it registers, logs in and out, and calls the protected
\* endpoints with whatever session it holds
NextSession ==
  \/ SessionRegister
  \/ SessionLogin
  \/ Logout
  \/ SessionGetParcels
  \/ SessionCreateParcel
  \/ SessionGetParcel
  \/ SessionUpdateParcel
  \/ SessionDeleteParcel
  \/ SessionGetAnalyses
  \/ SessionCreateAnalysis
  \/ SessionGetAnalysis
  \/ SessionDeleteAnalysis

SpecSession == Init /\ [][NextSession]_vars

\* the shading of samples by the image evalscript
SpecShading == Init /\ [][EvaluatePixel]_vars

(***************************************************************************)
(* Properties of the NDVI endpoints (specification Spec).                  *)
(***************************************************************************)
NdviOps == { "/ndvi-image", "/ndvi-stats", "/export-ndvi-csv" }

\* the argument is not in the query string, or is the empty string
AbsentOrEmpty(args, k) == k \notin DOMAIN args \/ args[k] = ""

\* the message has the field name as one of its segments
Names(message, field) == \E i \in 1 .. Len(message) : message[i] = field

\* the error message of a text or JSON error response
ErrorMessage(r) == IF r.body.kind = "json" THEN r.body.json.error ELSE r.body.text

\* C1: on each of the three NDVI endpoints, a request whose parcel_geojson or
\* date is absent or empty is answered with status 400 and an error message
\* that names both parcel_geojson and date.
C1_MissingParams400 ==
  (last.op \in NdviOps
     /\ (AbsentOrEmpty(last.args, "parcel_geojson") \/ AbsentOrEmpty(last.args, "date")))
  => /\ resp.status = 400
     /\ resp.body.kind \in { "text", "json" }
     /\ Names(ErrorMessage(resp), "parcel_geojson")
     /\ Names(ErrorMessage(resp), "date")

\* C1 witness: /export-ndvi-csv was asked with a geometry and an empty date
\* and answered 400.
C1_Witness ==
  /\ last.op = "/export-ndvi-csv"
  /\ last.args = [parcel_geojson |-> FeatureCollection1, date |-> ""]
  /\ resp.status = 400

\* both parameters are present and not empty
BothParams(args) ==
  ~AbsentOrEmpty(args, "parcel_geojson") /\ ~AbsentOrEmpty(args, "date")

\* the response is an image: PNG bytes or the SVG placeholder
IsImagePayload(r) ==
  \/ r.mimetype = "image/png" /\ r.body.kind = "png"
  \/ r.mimetype = "image/svg+xml" /\ r.body.kind = "svg"

\* C2: every /ndvi-image request that has both parameters is answered with
\* an image payload (image/png bytes or the image/svg+xml placeholder),
\* whatever failed, and never with raw error text.
C2_ImageAlwaysImage ==
  (last.op = "/ndvi-image" /\ BothParams(last.args)) => IsImagePayload(resp)

\* C3: when the gateway answers a /ndvi-stats request with a status other
\* than 200, the response is a JSON error payload with exactly that status.
C3_StatsForwardsStatus ==
  (last.op = "/ndvi-stats" /\ last.gw.kind = "response" /\ last.gw.status # 200)
  => /\ resp.status = last.gw.status
     /\ resp.mimetype = "application/json"
     /\ resp.body.kind = "json"
     /\ DOMAIN resp.body.json = { "error" }

\* C3 witness: the gateway answered 429 and /ndvi-stats answered 429.
C3_Witness ==
  /\ last.op = "/ndvi-stats"
  /\ last.gw.kind = "response"
  /\ last.gw.status = 429
  /\ resp.status = 429

\* labels that say the values are an estimate and not a measurement
EstimateLabels ==
  { "Sentinel Hub data (estimated values)",
    "Sentinel Hub (derived values - rasterio unavailable)",
    "Sentinel Hub API (partial processing - rasterio error)",
    "Demo data (sample values)" }

\* the data_source label of a successful statistics output
DataSource(r) ==
  IF r.body.kind = "csv" THEN r.body.rows[1].data_source ELSE r.body.json.data_source

\* C4: while the raster engine is unavailable, every successful statistics
\* output (the /ndvi-stats JSON payload and the /export-ndvi-csv row) carries
\* a data_source label that identifies the values as an estimate.
C4_EstimateLabelled ==
  (~RASTERIO_AVAILABLE /\ last.op \in { "/ndvi-stats", "/export-ndvi-csv" }
     /\ resp.status = 200)
  => DataSource(resp) \in EstimateLabels

\* the count the fallback pixel-count rule gives for the headers of a 200
\* answer: n \div 4 for a content-length n above 100000, else the default
RuleCount(headers, n, default) ==
  IF headers = [content_length |-> ToDigits(n)] /\ n > 100000 THEN n \div 4 ELSE default

\* C5: for a /ndvi-stats request answered by the gateway with status 200, the
\* returned count is n \div 4 when the content-length header has a value
\* n > 100000, and 250000 when the header is absent or n <= 100000.
C5_StatsCount ==
  \A n \in ContentLengths :
    (last.op = "/ndvi-stats" /\ last.gw.kind = "response" /\ last.gw.status = 200
       /\ last.gw.headers \in { <<>>, [content_length |-> ToDigits(n)] })
    => /\ resp.status = 200
       /\ resp.body.json.count = RuleCount(last.gw.headers, n, 250000)

\* C5 witness: content-length 100001 gave count 25000.
C5_Witness ==
  /\ last.op = "/ndvi-stats"
  /\ last.gw.kind = "response"
  /\ last.gw.status = 200
  /\ last.gw.headers = [content_length |-> <<"1", "0", "0", "0", "0", "1">>]
  /\ resp.status = 200
  /\ resp.body.json.count = 25000

\* C6: for a /export-ndvi-csv request answered by the gateway with status
\* 200, pixel_count in the CSV row is n \div 4 when the content-length n
\* exceeds 100000, and 262144 otherwise.
C6_CsvCount ==
  \A n \in ContentLengths :
    (last.op = "/export-ndvi-csv" /\ last.gw.kind = "response" /\ last.gw.status = 200
       /\ last.gw.headers \in { <<>>, [content_length |-> ToDigits(n)] })
    => /\ resp.status = 200
       /\ resp.body.rows[1].pixel_count = RuleCount(last.gw.headers, n, 262144)

\* parcel_geojson strings that parse and hold features[0].geometry
WellFormedGeo == { FeatureCollection1, FeatureCollection2 }

\* the request is rejected before the gateway is called
RejectedEarly(args) ==
  ~BothParams(args) \/ args["parcel_geojson"] \notin WellFormedGeo

\* C9: every request to an NDVI endpoint makes at most one outbound call to
\* the processing endpoint: none when it is rejected for missing parameters
\* or malformed GeoJSON, exactly one otherwise; a failed call is not retried.
C9_AtMostOneCall ==
  last.op \in NdviOps
  => /\ Len(sent) <= 1
     /\ (Len(sent) = 0) <=> RejectedEarly(last.args)
     /\ \A i \in 1 .. Len(sent) : sent[i].url = SENTINEL_PROCESS_URL

\* C9 witness: the call for /ndvi-image raised a transport exception, the
\* failure response was returned and one call had been made.
C9_Witness ==
  /\ last.op = "/ndvi-image"
  /\ last.gw.kind = "exception"
  /\ resp.status = 500
  /\ Len(sent) = 1

(***************************************************************************)
(* Properties of the analysis store.                                       *)
(***************************************************************************)
\* the rows of the pair (parcel_id, analysis_date)
RowsOfPair(A, parcel_id, analysis_date) ==
  { a \in A : a.parcel_id = parcel_id /\ a.analysis_date = analysis_date }

\* the analysis_date of the body is a string that parses to the date
NamesDate(value, analysis_date) ==
  /\ IsStr(value)
  /\ strptime(value) = Ok(analysis_date)

\* a POST by the owner of the parcel for a pair that already has a row
\* updates that row in place: same id, 'updated' true, as many rows as
\* before, and one row for the pair afterwards
RepeatedPostUpdates ==
  \A a \in analyses :
    (last'.op = "create_analysis"
       /\ <<last', resp', analyses'>> # <<last, resp, analyses>>
       /\ OwnedParcels(parcels, last'.parcel_id, last'.user) # {}
       /\ a.parcel_id = last'.parcel_id
       /\ NamesDate(last'.analysis_date, a.analysis_date))
    => /\ resp'.status = 200
       /\ resp'.body.json.updated
       /\ resp'.body.json.id = a.id
       /\ Cardinality(analyses') = Cardinality(analyses)
       /\ { b.id : b \in analyses' } = { b.id : b \in analyses }
       /\ Cardinality(RowsOfPair(analyses', a.parcel_id, a.analysis_date)) = 1

\* a GET by the owner returns the rows of the parcel, one for each pair
GetReturnsOnePerPair ==
  (last'.op = "get_analyses"
     /\ OwnedParcels(parcels, last'.parcel_id, last'.user) # {})
  => /\ resp'.status = 200
     /\ \A a \in analyses :
          a.parcel_id = last'.parcel_id =>
            Cardinality(RowsOfPair(resp'.body.json.rows, a.parcel_id, a.analysis_date)) = 1

\* C7: with requests served one after the other, a POST to
\* /api/parcels/<id>/analyses by the owner for a (parcel_id, analysis_date)
\* that already has a record updates that record in place (same id,
\* 'updated' true, record count unchanged), and a GET of the parcel's
\* analyses returns exactly one record for each such pair.
C7_UpsertInPlace == [][RepeatedPostUpdates /\ GetReturnsOnePerPair]_vars

\* C7 witness: a second POST for a pair has been answered 'updated' and the
\* record holds the value of the second POST.
C7_Witness ==
  /\ last.op = "create_analysis"
  /\ resp.status = 200
  /\ resp.body.json.updated
  /\ \E a \in analyses : a.id = resp.body.json.id /\ a.mean_ndvi = Num(61)
  /\ Cardinality(analyses) = 2

\* C8: in every reachable state, also with concurrent create_analysis
\* requests interleaved between lookup and commit, there is at most one
\* NDVIAnalysis record per (parcel_id, analysis_date).
C8_AtMostOnePerPair ==
  \A a, b \in analyses :
    (a.parcel_id = b.parcel_id /\ a.analysis_date = b.analysis_date) => a = b

\* C10: no exception leaves a request handler: every request is answered by
\* a response the handler built.
C10_NoUnhandledException == resp.body.kind # "unhandled"

(***************************************************************************)
(* Further properties of the NDVI endpoints (specification Spec).          *)
(***************************************************************************)
\* C11: on each of the three NDVI endpoints, a request whose parcel_geojson
\* is present but malformed (not parseable as JSON, or without
\* features[0].geometry) is answered with status 400.
C11_Malformed400 ==
  (last.op \in NdviOps /\ BothParams(last.args)
     /\ last.args["parcel_geojson"] \notin WellFormedGeo)
  => resp.status = 400

\* the token request at startup gave no token: a transport exception, a
\* status other than 200, or a 200 answer without access_token
AcquisitionFailed(o) ==
  \/ o.kind = "exception"
  \/ o.status # 200
  \/ "access_token" \notin DOMAIN o.json

\* the credential the process holds after a startup with outcome o
StartupCredential(o) ==
  IF AcquisitionFailed(o) THEN "default_access_token" ELSE o.json.access_token

\* every outbound call of the request served last carries the credential
CallsCarry(calls, credential) ==
  \A i \in 1 .. Len(calls) :
    calls[i].headers = [Authorization |-> <<"Bearer ", credential>>]

\* C12: the credential is acquired once, at process start; when the
\* acquisition fails (status other than 200, transport exception, or a 200
\* answer without access_token) the placeholder "default_access_token" is
\* used and startup goes on; after that no request, whatever the gateway
\* answers (authentication rejections included), changes the credential, and
\* every outbound call carries the credential fixed at startup.
C12_CredentialFixedAtStartup ==
  [][ /\ (last.op = "startup" => token = StartupCredential(last.outcome))
      /\ token' = token
      /\ CallsCarry(sent', token) ]_vars

\* C12 witness: startup went on with the placeholder, the gateway rejected a
\* call with 401, and the call carried the placeholder.
C12_Witness ==
  /\ token = "default_access_token"
  /\ last.op = "/ndvi-stats"
  /\ last.gw.kind = "response"
  /\ last.gw.status = 401
  /\ Len(sent) = 1
  /\ sent[1].headers.Authorization = <<"Bearer ", "default_access_token">>

\* the geometry of the first feature of a well-formed parcel_geojson
FirstFeatureGeometry(s) ==
  CASE s = FeatureCollection1 -> "Polygon1"
    [] s = FeatureCollection2 -> "Polygon2"

\* the first and the last second of the day, as the gateway expects them
DayStart(d) ==
  CASE d = "2024-05-01" -> "2024-05-01T00:00:00Z"
    [] d = "2024-06-15" -> "2024-06-15T00:00:00Z"

DayEnd(d) ==
  CASE d = "2024-05-01" -> "2024-05-01T23:59:59Z"
    [] d = "2024-06-15" -> "2024-06-15T23:59:59Z"

\* C13: on each of the three NDVI endpoints, a request that has both
\* parameters and a parcel_geojson holding features[0].geometry sends one
\* processing request with width 512, height 512, the time range from
\* '{date}T00:00:00Z' to '{date}T23:59:59Z' and bounds.geometry equal to the
\* geometry of the first feature.
C13_OutboundRequestShape ==
  (last.op \in NdviOps /\ BothParams(last.args)
     /\ last.args["parcel_geojson"] \in WellFormedGeo)
  => /\ Len(sent) = 1
     /\ sent[1].json.output.width = 512
     /\ sent[1].json.output.height = 512
     /\ sent[1].json.input.data.timeRange =
          [from |-> DayStart(last.args["date"]), to |-> DayEnd(last.args["date"])]
     /\ sent[1].json.input.bounds.geometry =
          FirstFeatureGeometry(last.args["parcel_geojson"])

\* C13 witness: /export-ndvi-csv was asked for a collection of two features
\* on 2024-06-15 and sent the geometry of the first one for that day.
C13_Witness ==
  /\ last.op = "/export-ndvi-csv"
  /\ last.args = [parcel_geojson |-> FeatureCollection2, date |-> "2024-06-15"]
  /\ Len(sent) = 1
  /\ sent[1].json.input.bounds.geometry = "Polygon2"
  /\ sent[1].json.input.data.timeRange.from = "2024-06-15T00:00:00Z"
  /\ sent[1].json.input.data.timeRange.to = "2024-06-15T23:59:59Z"

\* a response of /export-ndvi-csv that is not the CSV attachment
CsvFailure == last.op = "/export-ndvi-csv" /\ resp.body.kind # "csv"

\* C14, as stated: every failure response of /export-ndvi-csv is plain text
\* with status 400 (missing parameters) or 500; in particular a gateway
\* answer with any status other than 200 gives status 500.
C14_CsvFailure400Or500 ==
  CsvFailure
  => /\ resp.mimetype = "text/plain"
     /\ \/ resp.status = 400 /\ ~BothParams(last.args)
        \/ resp.status = 500
     /\ (last.gw.kind = "response" /\ last.gw.status # 200) => resp.status = 500

\* C14, amended: every failure response of /export-ndvi-csv is plain text;
\* its status is 400 when a parameter is missing, the gateway's own status s
\* when the gateway answers with a status s other than 200, and 500 when an
\* exception is caught (malformed GeoJSON, transport failure).
C14_CsvFailureStatus ==
  CsvFailure
  => /\ resp.mimetype = "text/plain"
     /\ resp.body.kind = "text"
     /\ resp.status = IF ~BothParams(last.args) THEN 400
                      ELSE IF last.gw.kind = "response" THEN last.gw.status
                      ELSE 500
     /\ last.gw.kind = "response" => last.gw.status # 200

\* C14 witness: the gateway answered 401 and /export-ndvi-csv answered 401
\* in plain text.
C14_Witness ==
  /\ last.op = "/export-ndvi-csv"
  /\ last.gw.kind = "response"
  /\ last.gw.status = 401
  /\ resp.status = 401
  /\ resp.mimetype = "text/plain"

\* C15: when the outbound call raises a transport-level exception, every
\* endpoint answers with a response of its own and status 500: /ndvi-image
\* with the image/svg+xml placeholder, /ndvi-stats with a JSON error payload,
\* /export-ndvi-csv with plain text; each carries the exception's message.
C15_TransportException500 ==
  (last.op \in NdviOps /\ last.gw.kind = "exception")
  => /\ resp.status = 500
     /\ last.op = "/ndvi-image" =>
          /\ resp.mimetype = "image/svg+xml"
          /\ resp.body.kind = "svg"
          /\ Names(resp.body.captions, last.gw.message)
     /\ last.op = "/ndvi-stats" =>
          /\ resp.mimetype = "application/json"
          /\ resp.body.kind = "json"
          /\ "error" \in DOMAIN resp.body.json
          /\ resp.body.json.error_details = last.gw.message
     /\ last.op = "/export-ndvi-csv" =>
          /\ resp.mimetype = "text/plain"
          /\ resp.body.kind = "text"
          /\ Names(resp.body.text, last.gw.message)

\* C15 witness: the call for /ndvi-stats raised ConnectionError and the
\* answer was a JSON error with status 500.
C15_Witness ==
  /\ last.op = "/ndvi-stats"
  /\ last.gw.kind = "exception"
  /\ resp.status = 500
  /\ resp.body.kind = "json"
  /\ resp.body.json.error_details = "ConnectionError"

\* C16: in every successful /export-ndvi-csv response the three vegetation
\* columns are the area_distribution fractions of the statistics times 100,
\* and the Content-Disposition file name is exactly ndvi_stats_{date}.csv
\* for the date of the request.
C16_CsvColumnsAndFileName ==
  (last.op = "/export-ndvi-csv" /\ resp.status = 200)
  => /\ resp.mimetype = "text/csv"
     /\ Len(resp.body.rows) = 1
     /\ resp.body.rows[1].low_vegetation_pct =
          100 * DerivedStats.area_distribution.low_vegetation
     /\ resp.body.rows[1].moderate_vegetation_pct =
          100 * DerivedStats.area_distribution.moderate_vegetation
     /\ resp.body.rows[1].high_vegetation_pct =
          100 * DerivedStats.area_distribution.high_vegetation
     /\ resp.headers.Content_Disposition =
          <<"attachment; filename=ndvi_stats_", last.args["date"], ".csv">>

\* C16 witness: the export for 2024-06-15 succeeded; the columns are 15, 38
\* and 47 percent (in hundredths) and the file is ndvi_stats_2024-06-15.csv.
C16_Witness ==
  /\ last.op = "/export-ndvi-csv"
  /\ resp.status = 200
  /\ resp.body.rows[1].low_vegetation_pct = 1500
  /\ resp.body.rows[1].moderate_vegetation_pct = 3800
  /\ resp.body.rows[1].high_vegetation_pct = 4700
  /\ resp.headers.Content_Disposition[2] = "2024-06-15"

NdviIs(hundredths) ==
  /\ pixel # NoPixel
  /\ pixel.ndvi # NaN
  /\ 100 * pixel.ndvi.num = hundredths * pixel.ndvi.den

\* the channel has the value p / q
ChannelIs(x, p, q) == x # NaN /\ x.num * q = p * x.den

\* the colour of the sample shaded last is (r, g, b), g given as gp / gq
ColourIs(r, gp, gq, b) ==
  /\ ChannelIs(pixel.rgb[1], r, 1)
  /\ ChannelIs(pixel.rgb[2], gp, gq)
  /\ ChannelIs(pixel.rgb[3], b, 1)

\* C18: the shading formula of the /ndvi-image request maps ndvi = -0.5 to
\* (1, 0, 0), ndvi = 0 to (1, 0, 0), ndvi = 0.33 to pure yellow (1, 1, 0),
\* and ndvi = 1 to red = blue = 0 with green = 0.465.
C18_ShadingTable ==
  /\ NdviIs(-50) => ColourIs(1, 0, 1, 0)
  /\ NdviIs(0) => ColourIs(1, 0, 1, 0)
  /\ NdviIs(33) => ColourIs(1, 1, 1, 0)
  /\ NdviIs(100) => ColourIs(0, 465, 1000, 0)

(***************************************************************************)
(* Independence of the statistics from the request (specification Spec).   *)
(***************************************************************************)
\* the gateway answered the /ndvi-stats request with status 200
StatsAnswered200(request) ==
  /\ request.op = "/ndvi-stats"
  /\ request.gw.kind = "response"
  /\ request.gw.status = 200

\* C19: the successful /ndvi-stats payload depends on the gateway answer's
\* content-length only, not on the request: of any two /ndvi-stats requests,
\* served one after the other, whose gateway answers both have status 200
\* and the same content-length header (or both none), the second receives
\* the response the first received, whatever parcel_geojson and date they
\* carry. Every pair of requests is served in this order in some behaviour.
C19_StatsIndependentOfRequest ==
  [][(StatsAnswered200(last) /\ StatsAnswered200(last')
        /\ last'.gw.headers = last.gw.headers)
     => resp' = resp]_vars

\* C19 witness: a request for the two-feature collection on 2024-06-15 was
\* answered 200 with the count of the content-length 100005.
C19_Witness ==
  /\ last.op = "/ndvi-stats"
  /\ last.args = [parcel_geojson |-> FeatureCollection2, date |-> "2024-06-15"]
  /\ last.gw.kind = "response"
  /\ last.gw.status = 200
  /\ last.gw.headers = [content_length |-> <<"1", "0", "0", "0", "0", "5">>]
  /\ resp.status = 200
  /\ resp.body.json.count = 25001

(***************************************************************************)
(* Ownership (specification SpecOwn).                                      *)
(***************************************************************************)
\* the operations that name a parcel, and those that name an analysis
ParcelOps ==
  { "get_parcel", "update_parcel", "delete_parcel", "get_analyses", "create_analysis" }

AnalysisOps == { "get_analysis", "delete_analysis" }

\* the parcel exists and belongs to somebody else
ForeignParcel(P, parcel_id, user) ==
  \E p \in P : p.id = parcel_id /\ p.user_id # user

\* the analysis exists and its parcel belongs to somebody else
ForeignAnalysis(A, P, analysis_id, user) ==
  \E a \in A : a.id = analysis_id /\ ForeignParcel(P, a.parcel_id, user)

\* the rows that do not belong to the user
ParcelsOfOthers(P, user) == { p \in P : p.user_id # user }

AnalysesOfOthers(A, P, user) ==
  { a \in A : \A p \in P : p.id = a.parcel_id => p.user_id # user }

\* the ids of the parcels of the user
OwnParcelIds(P, user) == { p.id : p \in { q \in P : q.user_id = user } }

\* a request that names a parcel or an analysis of another user is answered
\* 404 and writes nothing
ForeignTargetRefused ==
  /\ (last'.op \in ParcelOps /\ ForeignParcel(parcels, last'.parcel_id, last'.user))
     => resp'.status = 404 /\ parcels' = parcels /\ analyses' = analyses
  /\ (last'.op \in AnalysisOps
        /\ ForeignAnalysis(analyses, parcels, last'.analysis_id, last'.user))
     => resp'.status = 404 /\ parcels' = parcels /\ analyses' = analyses

\* no request changes a row of another user
OthersRowsKept ==
  last'.op \in ParcelOps \cup AnalysisOps
  => /\ ParcelsOfOthers(parcels', last'.user) = ParcelsOfOthers(parcels, last'.user)
     /\ AnalysesOfOthers(analyses', parcels', last'.user)
          = AnalysesOfOthers(analyses, parcels, last'.user)

\* a response with status 200 shows rows of the caller only
OwnRowsShown ==
  /\ (last'.op \in { "get_parcel", "update_parcel" } /\ resp'.status = 200)
     => resp'.body.json.id \in OwnParcelIds(parcels, last'.user)
  /\ (last'.op = "get_analyses" /\ resp'.status = 200)
     => \A a \in resp'.body.json.rows : a.parcel_id \in OwnParcelIds(parcels, last'.user)
  /\ (last'.op = "get_analysis" /\ resp'.status = 200)
     => resp'.body.json.parcel_id \in OwnParcelIds(parcels, last'.user)

\* C20: ownership isolation. For get, update and delete of a parcel and
\* list, create, get and delete of an analysis, a logged-in user who names a
\* parcel or analysis of another user is answered 404 and the tables stay as
\* they were; no request of a user changes a row of another user, and no
\* response shows one.
C20_OwnershipIsolation ==
  [][ForeignTargetRefused /\ OthersRowsKept /\ OwnRowsShown]_vars

\* C20 witness: user 2 asked to delete the analysis of a parcel of user 1,
\* was answered 404, and the analysis is still there.
C20_Witness ==
  /\ last.op = "delete_analysis"
  /\ last.user = 2
  /\ resp.status = 404
  /\ \E a \in analyses :
       /\ a.id = last.analysis_id
       /\ \E p \in parcels : p.id = a.parcel_id /\ p.user_id = 1

(***************************************************************************)
(* Referential integrity (specification SpecOwn).                          *)
(***************************************************************************)
\* every analysis row refers to a parcel row
EveryAnalysisHasParcel(A, P) == \A a \in A : \E p \in P : p.id = a.parcel_id

RowWithId(A, id) == CHOOSE a \in A : a.id = id

\* the update of row old to row new by a POST with body data keeps what the
\* body does not name, and keeps id, parcel_id, analysis_date and created_at
KeepsAbsentFields(old, new, data) ==
  /\ new.id = old.id
  /\ new.parcel_id = old.parcel_id
  /\ new.analysis_date = old.analysis_date
  /\ new.created_at = old.created_at
  /\ "mean_ndvi" \notin DOMAIN data => new.mean_ndvi = old.mean_ndvi
  /\ "notes" \notin DOMAIN data => new.notes = old.notes

\* C22: when create_analysis updates an existing record, every statistic or
\* notes field that the request body does not hold keeps its previous value,
\* the record's id, parcel_id, analysis_date and created_at are unchanged,
\* and all other analysis records are unchanged.
C22_UpdateKeepsAbsentFields ==
  [][(last'.op = "create_analysis" /\ resp'.status = 200)
     => \A data \in FieldwiseAnalysisBodies :
          (data["analysis_date"] = last'.analysis_date
             /\ create_analysis(last'.user, last'.parcel_id, data))
          => /\ resp'.body.json.updated
             /\ \E old \in analyses, new \in analyses' :
                  /\ old.id = resp'.body.json.id
                  /\ new.id = resp'.body.json.id
                  /\ KeepsAbsentFields(old, new, data)
                  /\ analyses' \ {new} = analyses \ {old}]_vars

\* C22 witness: an update has been answered and the updated record holds
\* both a statistic and notes, which no single request body holds, beside a
\* second record.
C22_Witness ==
  /\ last.op = "create_analysis"
  /\ resp.status = 200
  /\ resp.body.json.updated
  /\ Cardinality(analyses) = 2
  /\ \E a \in analyses :
       /\ a.id = resp.body.json.id
       /\ a.mean_ndvi = Num(61)
       /\ a.notes = Str("after rain")

\* the validation of a registration as the claim words it
FailsValidation(U, form) ==
  \/ Len(FormGet(form, "username")) < 3
  \/ \A i \in 1 .. Len(FormGet(form, "email")) : FormGet(form, "email")[i] # "@"
  \/ Len(FormGet(form, "password")) < 6
  \/ \E u \in U : u.username = FormGet(form, "username") \/ u.email = FormGet(form, "email")

\* C23: after any sequence of registration requests no two stored users
\* share a username or an email, and a registration that fails validation
\* (username shorter than 3, email without '@', password shorter than 6,
\* username or email already taken) returns 400, creates no user and logs
\* nobody in.
C23_RegistrationKeepsUsersUnique ==
  [][ /\ \A u, v \in users' : (u.username = v.username \/ u.email = v.email) => u = v
      /\ (last'.op = "register" /\ last'.method = "POST"
            /\ FailsValidation(users, last'.form))
         => /\ resp'.status = 400
            /\ users' = users
            /\ session' = session ]_vars

C23_Witness ==
  /\ last.op = "register"
  /\ last.method = "POST"
  /\ resp.status = 400
  /\ Cardinality(users) = 1
  /\ Len(FormGet(last.form, "username")) >= 3
  /\ Len(FormGet(last.form, "password")) >= 6
  /\ \A u \in users : u.username # FormGet(last.form, "username")
  /\ \E u \in users : u.email = FormGet(last.form, "email")
  /\ session # Anonymous

\* the endpoints the claim names: the parcel and analysis endpoints and /logout
ProtectedOps ==
  { "get_parcels", "create_parcel", "get_parcel", "update_parcel", "delete_parcel",
    "get_analyses", "create_analysis", "get_analysis", "delete_analysis", "logout" }

\* the answer a client without a session gets: it is sent to the login page
SentToLogin(r) ==
  r.status = 302 /\ r.body.kind = "redirect" /\ r.body.location[1] = "/login"
    /\ Len(r.body.location) > 1

\* a login whose username no stored user has, or whose password is not the
\* one the stored user registered with
BadCredentials(U, form) ==
  \/ \A u \in U : u.username # FormGet(form, "username")
  \/ /\ "password" \in DOMAIN form
     /\ \E u \in U : u.username = FormGet(form, "username")
                     /\ u.password_hash.hash_of # form["password"]

\* C24: a login with an unknown username or a wrong password returns 401
\* and establishes no session; a session is established only by a successful
\* login or registration; the parcel and analysis endpoints and /logout are
\* served only to a client that holds a session, and after /logout the
\* client holds none.
C24_SessionOrdering ==
  [][ /\ (last'.op = "login" /\ BadCredentials(users, last'.form))
         => (resp'.status = 401 /\ session' = session)
      /\ (last'.op = "login" /\ resp'.status # 200) => session' = session
      /\ (session' # session /\ session' # Anonymous)
         => (last'.op \in {"login", "register"} /\ resp'.status = 200)
      /\ (last'.op \in ProtectedOps /\ session = Anonymous)
         => (SentToLogin(resp') /\ session' = Anonymous
               /\ parcels' = parcels /\ analyses' = analyses)
      /\ (last'.op \in ProtectedOps /\ "user" \in DOMAIN last')
         => last'.user = session
      /\ last'.op = "logout" => session' = Anonymous ]_vars

C24_Witness ==
  /\ last.op = "get_analyses"
  /\ SentToLogin(resp)
  /\ session = Anonymous
  /\ Cardinality(users) = 2
  /\ analyses # {}

\* the date strings of the request bodies that are written YYYY-MM-DD
IsoDateStrings == { "2024-05-01", "2024-06-15" }

\* the request got 400 and no parcel or analysis record was created or modified
Rejected400 == resp'.status = 400 /\ parcels' = parcels /\ analyses' = analyses

\* the request wrote nothing
NothingWritten == parcels' = parcels /\ analyses' = analyses

\* a create_parcel whose body lacks name or geometry
ParcelBodyRejected(then) ==
  last'.op = "create_parcel"
  => \A u \in Users, data \in ParcelBodies :
       (("name" \notin DOMAIN data \/ "geometry" \notin DOMAIN data)
          /\ create_parcel(u, data))
       => then

\* an update_parcel of a parcel of the caller whose body is empty
EmptyUpdateRejected(then) ==
  (last'.op = "update_parcel"
     /\ OwnedParcels(parcels, last'.parcel_id, last'.user) # {})
  => \A data \in ParcelUpdates :
       (DOMAIN data = {} /\ update_parcel(last'.user, last'.parcel_id, data)) => then

\* C25 as stated, for a parcel of the caller: create_parcel without name or
\* geometry, create_analysis without analysis_date or with a date string not
\* written YYYY-MM-DD, and update_parcel with an empty body each return 400
\* and create or modify no parcel or analysis record.
C25_NonIsoDateRejected ==
  [][ /\ ParcelBodyRejected(Rejected400)
      /\ EmptyUpdateRejected(Rejected400)
      /\ (last'.op = "create_analysis"
            /\ OwnedParcels(parcels, last'.parcel_id, last'.user) # {}
            /\ (last'.analysis_date = Null
                  \/ (IsStr(last'.analysis_date)
                        /\ last'.analysis_date.str \notin IsoDateStrings)))
         => Rejected400 ]_vars

\* C25: for a parcel of the caller, create_parcel without name or geometry,
\* create_analysis without analysis_date or with a date string that
\* strptime('%Y-%m-%d') does not parse, and update_parcel with an empty body
\* each return 400; for a parcel that is not the caller's the answer is 404;
\* in each case no parcel or analysis record is created or modified.
C25_RejectedWritesChangeNothing ==
  [][ /\ ParcelBodyRejected(Rejected400)
      /\ EmptyUpdateRejected(Rejected400)
      /\ (last'.op = "create_analysis"
            /\ OwnedParcels(parcels, last'.parcel_id, last'.user) # {}
            /\ (last'.analysis_date = Null
                  \/ (IsStr(last'.analysis_date)
                        /\ ~strptime(last'.analysis_date).ok)))
         => Rejected400
      /\ (last'.op \in {"create_analysis", "update_parcel"}
            /\ OwnedParcels(parcels, last'.parcel_id, last'.user) = {})
         => (resp'.status = 404 /\ NothingWritten) ]_vars

C25_Witness ==
  /\ last.op = "create_analysis"
  /\ last.analysis_date = Str("01/05/2024")
  /\ OwnedParcels(parcels, last.parcel_id, last.user) # {}
  /\ resp.status = 400
  /\ analyses # {}
  /\ \E p \in parcels : p.name = "South field"

====
